---- MODULE Spec2Model ----
(***************************************************************************)
(* Model of src/lib/hooks/useScrollingNavigation.tsx: the hook             *)
(* useScrollingNavigation (two pieces of state, three effects, the scroll  *)
(* listener determineActiveElement) and the exported helper getScroll.     *)
(*                                                                         *)
(* One action is one step of the UI event loop: a render of the hook       *)
(* together with the effects React commits after it, a scroll event        *)
(* dispatched to a container, a window resize, an unmount, or a change of  *)
(* the page the hook lives in.  The page is state: which elements exist    *)
(* and their bounding rectangles.  Scroll positions are inputs of the step *)
(* that reads them; the step records what it read next to what it did.     *)
(***************************************************************************)
EXTENDS Integers, Sequences, FiniteSets

\* ------------------------------------------------------------------ bounds
\* Scroll positions, bounding-box corners and margins range over 0..MaxPx.
MaxPx == 1
\* The candidates of the scroll listener are MaxOff pixels high.
MaxOff == 1

\* ------------------------------------------------------- program constants
\* The fixed band of the y-axis test (rect.top <= 120 && rect.bottom >= 120).
BandY == 120
\* The x-axis test compares with width * 0.1 and width * 0.9; on the integer
\* pixels of the model that is 10 * left <= width and 10 * right >= 9 * width.
TenthsLow == 1
TenthsHigh == 9

\* ------------------------------------------------------------- value sets
Ids == {"a", "b"}
Directions == {"x", "y"}
\* Identities of the function passed as getScrollContainer.
Functions == {"f", "g"}
\* What getScrollContainer() can return: nothing yet, the window, an element.
Containers == {"null", "window", "div"}
ElementsIdsChoices ==
  {<< >>, <<"a">>, <<"a", "b">>, <<"b", "a">>, <<"", "a">>}
Widths == {10, 20}
Px == 0..MaxPx

Props ==
  [activeElementId : Ids \cup {""}, direction : Directions, margin : Px,
   getScrollContainer : Functions, elementsIds : ElementsIdsChoices]

\* Bounding rectangles (getBoundingClientRect) around the listener's
\* thresholds: tops from above the band to below it, lefts and rights on
\* either side of a tenth and nine tenths of the widths.
Rects ==
  {r \in [left : {1, 2}, right : {9, 18},
          top : (BandY - MaxOff - 1)..(BandY + 1),
          bottom : (BandY - 1)..(BandY + MaxOff + 1)] :
     r.bottom = r.top + MaxOff}

\* Bounding rectangles with their corner near the origin of the viewport.
CornerRects ==
  {r \in [left : Px, right : Px, top : Px, bottom : Px] :
     r.right = r.left /\ r.bottom = r.top}

\* The pages with elements from Ids whose rectangles are in R: a function from
\* the ids that have an element to its bounding rectangle.
Pages(R) == UNION {[D -> R] : D \in SUBSET Ids}

VARIABLES
  phase,          \* "init" (not rendered yet), "mounted", "unmounted"
  props,          \* the arguments of the most recent render
  container,      \* what getScrollContainer() returns when called now
  dom,            \* the page: the bounding rectangle of each existing element
  width,          \* windowDimensions.width held by useWindowDimensions
  activeElement,  \* useState: the active element (line 29)
  targetElement,  \* useState: the element to scroll to (line 31)
  rendered,       \* the state values the most recent render saw and returned,
                  \* and whether the last run of its scroll effect called scrollTo
  listeners,      \* the scroll listeners attached, each with its closure
  cleanup,        \* what the cleanup of the listener effect will remove
  call,           \* the last step: whether it rendered, the scroll effect ran, its call
  errors,         \* console.error calls made by the last step
  event,          \* the listener run by the last step, if it was a scroll event
  gsArg,          \* getScroll: the argument of the direct call
  gsOut           \* getScroll: what the direct call returned and logged

vars ==
  <<phase, props, container, dom, width, activeElement, targetElement,
    rendered, listeners, cleanup, call, errors, event, gsArg, gsOut>>

\* --------------------------------------------------------------- getScroll
\* A scroll container as getScroll sees it: which of the two properties it
\* tests are defined, and the values it reads.
ContainerObjects ==
  [hasScrollX : BOOLEAN, hasScrollLeft : BOOLEAN, scrollX : Px, scrollY : Px,
   scrollLeft : Px, scrollTop : Px, rectLeft : Px, rectTop : Px]

WindowObject(sx, sy) ==
  [hasScrollX |-> TRUE, hasScrollLeft |-> FALSE, scrollX |-> sx, scrollY |-> sy,
   scrollLeft |-> 0, scrollTop |-> 0, rectLeft |-> 0, rectTop |-> 0]

HTMLElementObject(sx, sy, corner) ==
  [hasScrollX |-> FALSE, hasScrollLeft |-> TRUE, scrollX |-> 0, scrollY |-> 0,
   scrollLeft |-> sx, scrollTop |-> sy, rectLeft |-> corner[1],
   rectTop |-> corner[2]]

\* getScroll without the bounding box of an element.
getScrollWithoutBox(element) ==
  IF element.hasScrollX
    THEN [value |-> <<element.scrollX, element.scrollY, 0, 0>>, errors |-> 0]
    ELSE IF element.hasScrollLeft
      THEN [value |-> <<element.scrollLeft, element.scrollTop, 0, 0>>,
            errors |-> 0]
      ELSE [value |-> <<0, 0, 0, 0>>, errors |-> 1]

\* getScroll falling back to zeros for an unknown container without logging.
getScrollSilent(element) ==
  IF element.hasScrollX
    THEN [value |-> <<element.scrollX, element.scrollY, 0, 0>>, errors |-> 0]
    ELSE IF element.hasScrollLeft
      THEN [value |-> <<element.scrollLeft, element.scrollTop,
                        element.rectLeft, element.rectTop>>,
            errors |-> 0]
      ELSE [value |-> <<0, 0, 0, 0>>, errors |-> 0]

\* getScroll testing scrollLeft before scrollX.
getScrollElementFirst(element) ==
  IF element.hasScrollLeft
    THEN [value |-> <<element.scrollLeft, element.scrollTop,
                      element.rectLeft, element.rectTop>>,
          errors |-> 0]
    ELSE IF element.hasScrollX
      THEN [value |-> <<element.scrollX, element.scrollY, 0, 0>>, errors |-> 0]
      ELSE [value |-> <<0, 0, 0, 0>>, errors |-> 1]

\* getScroll(element): the four numbers returned and the console.error calls.
getScroll(element) ==
  IF element.hasScrollX
    THEN [value |-> <<element.scrollX, element.scrollY, 0, 0>>, errors |-> 0]
    ELSE IF element.hasScrollLeft
      THEN [value |-> <<element.scrollLeft, element.scrollTop,
                        element.rectLeft, element.rectTop>>,
            errors |-> 0]
      ELSE [value |-> <<0, 0, 0, 0>>, errors |-> 1]

\* ------------------------------------------------------------ scroll effect
\* What scroll() reads from the container when it gets past line 51: its
\* scroll position <<sx, sy>> and, of an element, the corner of its bounding
\* box (a window has none).
Reads(c) ==
  [sx : Px, sy : Px, corner : IF c = "div" THEN Px \X Px ELSE {<<0, 0>>}]

NoRead == [sx |-> 0, sy |-> 0, corner |-> <<0, 0>>]

NoCall ==
  [render |-> FALSE, ran |-> FALSE, first |-> FALSE, from |-> "", made |-> FALSE,
   container |-> "null", id |-> "", left |-> 0, top |-> 0, behavior |-> "", read |-> NoRead,
   afterX |-> 0, afterY |-> 0]

\* document.getElementById(id) finds an element; none has the empty id.
getElementById(id) == id # "" /\ id \in DOMAIN dom

\* The object getScrollContainer() returned, as read.
ContainerObject(c, read) ==
  IF c = "window"
    THEN WindowObject(read.sx, read.sy)
    ELSE HTMLElementObject(read.sx, read.sy, read.corner)

Clamp(v) == IF v < 0 THEN 0 ELSE IF v > MaxPx THEN MaxPx ELSE v

\* container.scrollTo({left, top, behavior}): the position the container ends
\* at, each axis moved to the offset given for it, within 0..MaxPx.
scrollTo(left, top) == <<Clamp(left), Clamp(top)>>

\* The tests without the one on the container.
ShouldScrollWithoutContainer(target, c) == target # "" /\ getElementById(target)

\* The tests of lines 46 and 51.
ShouldScroll(target, c) == target # "" /\ c # "null" /\ getElementById(target)

\* The options object of lines 56..60.
ScrollToOptions(direction, scrollToX, scrollToY) ==
  [left |-> IF direction = "x" THEN scrollToX ELSE 0,
   top |-> IF direction = "y" THEN scrollToY ELSE 0,
   behavior |-> "smooth"]

\* scroll() of lines 45..62 for the rendered targetElement; c is what
\* getScrollContainer() returned.
scroll(target, c, direction, margin, read) ==
  IF ~ShouldScroll(target, c)
    THEN [call |-> [NoCall EXCEPT !.ran = TRUE, !.id = target, !.container = c],
          errors |-> 0]
    ELSE
      LET g == getScroll(ContainerObject(c, read))
          element == dom[target]
          scrollToX == g.value[1] + element.left - g.value[3] - margin
          scrollToY == g.value[2] + element.top - g.value[4] - margin
          o == ScrollToOptions(direction, scrollToX, scrollToY)
          after == scrollTo(o.left, o.top)
      IN [call |->
            [render |-> FALSE, ran |-> TRUE, first |-> FALSE, from |-> "",
             made |-> TRUE,
             container |-> c,
             id |-> target, left |-> o.left, top |-> o.top,
             behavior |-> o.behavior, read |-> read, afterX |-> after[1],
             afterY |-> after[2]],
          errors |-> g.errors]

\* ----------------------------------------------------------- scroll listener
\* The threshold test with the band's edges excluded.
VisibleStrictly(rect, direction, w) ==
  IF direction = "x"
    THEN 10 * rect.left <= TenthsLow * w /\ 10 * rect.right >= TenthsHigh * w
    ELSE rect.top < BandY /\ rect.bottom > BandY

\* The threshold test applying the band of the y-axis in both directions.
VisibleInBandOnly(rect, direction, w) ==
  rect.top <= BandY /\ rect.bottom >= BandY

\* The threshold test of lines 81..92.
Visible(rect, direction, w) ==
  IF direction = "x"
    THEN 10 * rect.left <= TenthsLow * w /\ 10 * rect.right >= TenthsHigh * w
    ELSE rect.top <= BandY /\ rect.bottom >= BandY

\* determineActiveElement stopping at the first match.
RECURSIVE determineActiveElementFirst(_, _, _, _)
determineActiveElementFirst(elementsIds, direction, w, active) ==
  IF elementsIds = << >>
    THEN active
    ELSE
      LET elementId == Head(elementsIds)
      IN IF /\ elementId # ""
            /\ elementId \in DOMAIN dom
            /\ IF direction = "x"
                 THEN /\ 10 * dom[elementId].left <= TenthsLow * w
                      /\ 10 * dom[elementId].right >= TenthsHigh * w
                 ELSE dom[elementId].top <= BandY /\ dom[elementId].bottom >= BandY
           THEN elementId
           ELSE determineActiveElementFirst(Tail(elementsIds), direction, w,
                                            active)

\* determineActiveElement going through elementsIds from its end.
RECURSIVE determineActiveElementBackwards(_, _, _, _)
determineActiveElementBackwards(elementsIds, direction, w, active) ==
  IF elementsIds = << >>
    THEN active
    ELSE
      LET elementId == elementsIds[Len(elementsIds)]
          matches ==
            /\ elementId # ""
            /\ elementId \in DOMAIN dom
            /\ IF direction = "x"
                 THEN /\ 10 * dom[elementId].left <= TenthsLow * w
                      /\ 10 * dom[elementId].right >= TenthsHigh * w
                 ELSE dom[elementId].top <= BandY /\ dom[elementId].bottom >= BandY
      IN determineActiveElementBackwards(
           SubSeq(elementsIds, 1, Len(elementsIds) - 1), direction, w,
           IF matches THEN elementId ELSE active)

\* determineActiveElement setting the empty id for a candidate that does not
\* match.
RECURSIVE determineActiveElementOrNone(_, _, _, _)
determineActiveElementOrNone(elementsIds, direction, w, active) ==
  IF elementsIds = << >>
    THEN active
    ELSE
      LET elementId == Head(elementsIds)
          matches ==
            /\ elementId # ""
            /\ elementId \in DOMAIN dom
            /\ IF direction = "x"
                 THEN /\ 10 * dom[elementId].left <= TenthsLow * w
                      /\ 10 * dom[elementId].right >= TenthsHigh * w
                 ELSE dom[elementId].top <= BandY /\ dom[elementId].bottom >= BandY
      IN determineActiveElementOrNone(Tail(elementsIds), direction, w,
                                      IF matches THEN elementId ELSE "")

\* determineActiveElement of lines 75..95: the forEach over elementsIds, each
\* matching id passed to setActiveElement in turn.
RECURSIVE determineActiveElement(_, _, _, _)
determineActiveElement(elementsIds, direction, w, active) ==
  IF elementsIds = << >>
    THEN active
    ELSE
      LET elementId == Head(elementsIds)
          next ==
            IF getElementById(elementId) /\ Visible(dom[elementId], direction, w)
              THEN elementId
              ELSE active
      IN determineActiveElement(Tail(elementsIds), direction, w, next)

NoEvent ==
  [ran |-> FALSE, container |-> "null", elementsIds |-> << >>, direction |-> "y",
   width |-> 0, before |-> "", after |-> ""]

\* The listener the third effect attaches (line 97), with what it closes over.
Listener(c, p, w) ==
  [container |-> c, elementsIds |-> p.elementsIds, direction |-> p.direction,
   width |-> w]

\* ------------------------------------------------------------------ effects
\* The dependency list of the scroll effect without targetElement.
ScrollDepsWithoutTarget(oldTarget, newTarget, old, new) ==
  \/ old.getScrollContainer # new.getScrollContainer
  \/ old.direction # new.direction
  \/ old.margin # new.margin

\* The dependency list of the scroll effect with activeElement added to it.
ScrollDepsWithActiveElement(oldTarget, newTarget, old, new) ==
  \/ oldTarget # newTarget
  \/ activeElement # rendered.activeElement
  \/ old.getScrollContainer # new.getScrollContainer
  \/ old.direction # new.direction
  \/ old.margin # new.margin

\* The scroll effect without a dependency list: it runs after every render.
ScrollDepsAlways(oldTarget, newTarget, old, new) == TRUE

\* Dependency lists of the first two effects (lines 40 and 65); the third
\* effect has none and runs after every render.
TargetDepsChanged(old, new) == old.activeElementId # new.activeElementId

ScrollDepsChanged(oldTarget, newTarget, old, new) ==
  \/ oldTarget # newTarget
  \/ old.getScrollContainer # new.getScrollContainer
  \/ old.direction # new.direction
  \/ old.margin # new.margin

\* The listeners attached once the third effect has run again (lines 68..101):
\* the previous cleanup removes its listener, then the effect attaches a new
\* one unless getScrollContainer() returned null.
Attached(c, p, w) == IF c = "null" THEN {} ELSE {Listener(c, p, w)}

\* The third effect returning no cleanup.
ListenerEffectWithoutCleanup(c, p, w) == listeners \cup Attached(c, p, w)

ListenerEffect(c, p, w) == (listeners \ cleanup) \cup Attached(c, p, w)

\* State that follows the activeElementId argument in every render.
useStateOfArgument(p, first, stored) == p.activeElementId

\* The state values a render sees: on the mounting render useState takes its
\* initial value, the activeElementId argument (lines 29 and 31).
useState(p, first, stored) == IF first THEN p.activeElementId ELSE stored

\* scroll() reading the activeElementId argument instead of the state.
scrollTargetFromProps(p, first) == p.activeElementId

\* The targetElement in scope of scroll() (lines 46 and 49): the state value
\* of the render the effect belongs to.
scrollTarget(p, first) == useState(p, first, targetElement)

\* Whether the first and the second effect run after a render with arguments p.
RunsTargetEffect(p, first) == first \/ TargetDepsChanged(props, p)

RunsScrollEffect(p, first) ==
  \/ first
  \/ ScrollDepsChanged(rendered.targetElement,
                       useState(p, first, targetElement), props, p)

\* A render of the hook with arguments p, and the effects committed after it.
\* first: the mounting render.  read: what scroll() reads from the container.
Commit(p, first, read) ==
  LET a == useState(p, first, activeElement)
      t == useState(p, first, targetElement)
      s == IF RunsScrollEffect(p, first)
             THEN scroll(scrollTarget(p, first), container, p.direction,
                         p.margin, read)
             ELSE [call |-> NoCall, errors |-> 0]
  IN /\ props' = p
     /\ activeElement' = a
     /\ targetElement' = IF RunsTargetEffect(p, first) THEN p.activeElementId ELSE t
     /\ rendered' = [activeElement |-> a, targetElement |-> t, width |-> width,
                      scrolled |-> IF s.call.ran THEN s.call.made
                                                 ELSE rendered.scrolled]
     /\ listeners' = ListenerEffect(container, p, width)
     /\ cleanup' = Attached(container, p, width)
     /\ call' = [s.call EXCEPT !.render = TRUE, !.first = first,
                                !.from = IF s.call.ran /\ ~first
                                           THEN rendered.targetElement
                                           ELSE ""]
     /\ errors' = s.errors
     /\ event' = NoEvent
     /\ phase' = "mounted"
     /\ UNCHANGED <<container, dom, width, gsArg, gsOut>>

\* The reads a render with arguments p draws from R: none unless scroll() gets
\* past its tests.
ReadsOf(p, first, R) ==
  IF /\ RunsScrollEffect(p, first)
     /\ ShouldScroll(scrollTarget(p, first), container)
    THEN R
    ELSE {NoRead}

\* A state update is waiting for its render.
Pending ==
  \/ activeElement # rendered.activeElement
  \/ targetElement # rendered.targetElement
  \/ width # rendered.width

\* ------------------------------------------------------------------ actions
\* A step that renders draws the arguments of the hook from a set P of
\* argument records and what scroll() reads from a set R; a step that changes
\* the page draws rectangles from a set R.  The specifications below differ
\* in these sets and in the steps they take.
MountOver(P, R) ==
  /\ phase = "init"
  /\ \E p \in P : \E read \in ReadsOf(p, TRUE, R) : Commit(p, TRUE, read)

\* The parent renders the hook again, with the same or with new arguments.
ParentRenderOver(P, R) ==
  /\ phase = "mounted"
  /\ \E p \in P : \E read \in ReadsOf(p, FALSE, R) : Commit(p, FALSE, read)

\* The render React schedules after a state update of the hook.
StateRenderOver(R) ==
  /\ phase = "mounted"
  /\ Pending
  /\ \E read \in ReadsOf(props, FALSE, R) : Commit(props, FALSE, read)

\* A scroll event on container c: the listeners attached to c run; with none
\* attached the event passes and only its container is recorded.
ScrollEvent ==
  \E c \in Containers \ {"null"} :
    LET ls == {l \in listeners : l.container = c}
    IN /\ IF ls = {}
            THEN /\ event' = [NoEvent EXCEPT !.container = c]
                 /\ UNCHANGED activeElement
            ELSE \E l \in ls :
                   LET after == determineActiveElement(l.elementsIds, l.direction,
                                                       l.width, activeElement)
                   IN /\ activeElement' = after
                      /\ event' =
                           [ran |-> TRUE, container |-> c,
                            elementsIds |-> l.elementsIds,
                            direction |-> l.direction, width |-> l.width,
                            before |-> activeElement, after |-> after]
       /\ call' = NoCall
       /\ errors' = 0
       /\ UNCHANGED <<phase, props, container, dom, width, targetElement,
                      rendered, listeners, cleanup, gsArg, gsOut>>

\* The window is resized: useWindowDimensions stores the new width.
Resize ==
  /\ phase = "mounted"
  /\ \E w \in Widths \ {width} : width' = w
  /\ call' = NoCall
  /\ errors' = 0
  /\ event' = NoEvent
  /\ UNCHANGED <<phase, props, container, dom, activeElement, targetElement,
                 rendered, listeners, cleanup, gsArg, gsOut>>

\* An unmount that runs no cleanup.
UnmountWithoutCleanup ==
  /\ phase = "mounted"
  /\ phase' = "unmounted"
  /\ cleanup' = {}
  /\ call' = NoCall
  /\ errors' = 0
  /\ event' = NoEvent
  /\ UNCHANGED <<props, container, dom, width, activeElement, targetElement,
                 rendered, listeners, gsArg, gsOut>>

\* The component using the hook unmounts: the cleanup of the third effect runs.
Unmount ==
  /\ phase = "mounted"
  /\ phase' = "unmounted"
  /\ listeners' = listeners \ cleanup
  /\ cleanup' = {}
  /\ call' = NoCall
  /\ errors' = 0
  /\ event' = NoEvent
  /\ UNCHANGED <<props, container, dom, width, activeElement, targetElement,
                 rendered, gsArg, gsOut>>

\* The page changes: one element appears, moves or disappears.
DomChangeOver(R) ==
  /\ \E i \in Ids :
       \/ /\ i \in DOMAIN dom
          /\ dom' = [j \in DOMAIN dom \ {i} |-> dom[j]]
       \/ \E r \in R :
            /\ IF i \in DOMAIN dom THEN dom[i] # r ELSE TRUE
            /\ dom' = [j \in DOMAIN dom \cup {i} |-> IF j = i THEN r ELSE dom[j]]
  /\ call' = NoCall
  /\ errors' = 0
  /\ event' = NoEvent
  /\ UNCHANGED <<phase, props, container, width, activeElement, targetElement,
                 rendered, listeners, cleanup, gsArg, gsOut>>

\* getScrollContainer() starts to return something else (a ref is set).
ContainerChange ==
  /\ \E c \in Containers \ {container} : container' = c
  /\ call' = NoCall
  /\ errors' = 0
  /\ event' = NoEvent
  /\ UNCHANGED <<phase, props, dom, width, activeElement, targetElement,
                 rendered, listeners, cleanup, gsArg, gsOut>>

NoArg == WindowObject(0, 0)

NoOut == [called |-> FALSE, value |-> <<0, 0, 0, 0>>, errors |-> 0]

\* Before the first render, on a page with rectangles from R.
InitOver(R) ==
  /\ phase = "init"
  /\ props = [activeElementId |-> "", direction |-> "y", margin |-> 0,
              getScrollContainer |-> "f", elementsIds |-> << >>]
  /\ container \in Containers
  /\ dom \in Pages(R)
  /\ width \in Widths
  /\ activeElement = ""
  /\ targetElement = ""
  /\ rendered = [activeElement |-> "", targetElement |-> "", width |-> width,
                 scrolled |-> FALSE]
  /\ listeners = {}
  /\ cleanup = {}
  /\ call = NoCall
  /\ errors = 0
  /\ event = NoEvent
  /\ gsArg = NoArg
  /\ gsOut = NoOut

\* ---------------------------------------------- the hook through its life
\* One list of candidates, one reading of the container, and elements that
\* are visible to the listener or hidden from it.
MainProps == {p \in Props : p.elementsIds = <<"a", "b">>}

SampleReads == {NoRead}

VisibleRect ==
  [left |-> 1, right |-> 18, top |-> BandY, bottom |-> BandY + MaxOff]

HiddenRect ==
  [left |-> 2, right |-> 9, top |-> BandY + 1, bottom |-> BandY + 1 + MaxOff]

SampleRects == {VisibleRect, HiddenRect}

Init == InitOver(SampleRects)

Mount == MountOver(MainProps, SampleReads)

ParentRender == ParentRenderOver(MainProps, SampleReads)

StateRender == StateRenderOver(SampleReads)

DomChange == DomChangeOver(SampleRects)

Next ==
  \/ Mount
  \/ ParentRender
  \/ StateRender
  \/ ScrollEvent
  \/ Resize
  \/ Unmount
  \/ DomChange
  \/ ContainerChange

Spec == Init /\ [][Next]_vars

\* ------------------------------------------------------ the scroll-to path
\* Every change of the arguments, of the page and of the container, without
\* scroll events: what decides whether the scroll effect runs and calls.
InitScrollTo == InitOver({VisibleRect})

DomChangeScrollTo == DomChangeOver({VisibleRect})

NextScrollTo ==
  \/ Mount
  \/ ParentRender
  \/ StateRender
  \/ Unmount
  \/ DomChangeScrollTo
  \/ ContainerChange

SpecScrollTo == InitScrollTo /\ [][NextScrollTo]_vars

\* The same steps with the margin left at 0, and React rendering after a
\* state update: the scheduled render is not postponed for ever.
ChangeProps == {p \in MainProps : p.margin = 0}

MountChange == MountOver(ChangeProps, SampleReads)

ParentRenderChange == ParentRenderOver(ChangeProps, SampleReads)

NextChange ==
  \/ MountChange
  \/ ParentRenderChange
  \/ StateRender
  \/ Unmount
  \/ DomChangeScrollTo
  \/ ContainerChange

LiveScrollTo == InitScrollTo /\ [][NextChange]_vars /\ WF_vars(StateRender)

\* ------------------------------------------------- the offsets of scrollTo
\* The mounting render, whose scroll effect always runs, with every argument
\* record, on every page with corners in Px, reading every scroll position.
InitOffsets == InitOver(CornerRects)

MountOffsets == MountOver(MainProps, Reads(container))

NextOffsets == MountOffsets

SpecOffsets == InitOffsets /\ [][NextOffsets]_vars

\* -------------------------------------------------------- the scroll listener
\* Every page with rectangles around the thresholds, every list of candidates
\* and both directions; scroll events, resizes and the renders that follow
\* them.
SpyProps ==
  {p \in Props : p.margin = 0 /\ p.getScrollContainer = "f"}

InitSpy == InitOver(Rects)

MountSpy == MountOver(SpyProps, SampleReads)

NextSpy ==
  \/ MountSpy
  \/ ScrollEvent
  \/ StateRender
  \/ Resize

SpecSpy == InitSpy /\ [][NextSpy]_vars

\* ------------------------------------------- renders, events and listeners
\* Every step of the hook's life with the margin left at 0: renders with new
\* arguments, scroll events on either container, resizes, elements that
\* appear and disappear, changes of what getScrollContainer() returns, and
\* the unmount.
NextLifecycle ==
  \/ MountChange
  \/ ParentRenderChange
  \/ StateRender
  \/ ScrollEvent
  \/ Resize
  \/ Unmount
  \/ DomChangeScrollTo
  \/ ContainerChange

SpecLifecycle == InitScrollTo /\ [][NextLifecycle]_vars

\* ------------------------------------------------------ getScroll, directly
InitGetScroll == InitOver({VisibleRect}) /\ container = "null" /\ dom = << >> /\ width = 10

\* A caller of the exported getScroll passes it any object.
GetScrollCall ==
  /\ \E element \in ContainerObjects :
       /\ gsArg' = element
       /\ gsOut' = [called |-> TRUE, value |-> getScroll(element).value,
                    errors |-> getScroll(element).errors]
  /\ UNCHANGED <<phase, props, container, dom, width, activeElement,
                 targetElement, rendered, listeners, cleanup, call, errors,
                 event>>

NextGetScroll == GetScrollCall

SpecGetScroll == InitGetScroll /\ [][NextGetScroll]_vars

\* =================================================================== claims
\* ------------------------------------------------------------------------ C1
\* C1: whenever the scroll effect runs with the empty string as the target
\* element id, it makes no scrollTo call, whatever the container, the
\* direction, the margin and the page.
C1_EmptyTargetNoScroll ==
  call.ran /\ rendered.targetElement = "" => ~call.made

\* The scroll effect ran with an empty target although the container and an
\* element were there.
C1_Witness ==
  /\ call.ran
  /\ ~call.first
  /\ rendered.targetElement = ""
  /\ container # "null"
  /\ DOMAIN dom # {}

\* ------------------------------------------------------------------------ C9
\* C9: when the scroll effect runs with a non-empty target and
\* getScrollContainer() returns null or no element has the target id, it makes
\* no scrollTo call and logs nothing, and the active and target state are what
\* the render and the first effect left: the value the render returned and
\* the activeElementId argument.
C9_SkippedSilently ==
  /\ call.ran
  /\ rendered.targetElement # ""
  /\ container = "null" \/ rendered.targetElement \notin DOMAIN dom
  => /\ ~call.made
     /\ errors = 0
     /\ activeElement = rendered.activeElement
     /\ targetElement = props.activeElementId

\* The effect ran for an existing element while the container was null.
C9_Witness ==
  /\ call.ran
  /\ rendered.targetElement \in DOMAIN dom
  /\ container = "null"

\* The effect ran with a container while the element was missing.
C9_WitnessNoElement ==
  /\ call.ran
  /\ rendered.targetElement # ""
  /\ rendered.targetElement \notin DOMAIN dom
  /\ container # "null"

\* ------------------------------------------------------------------------ C4
\* The activeElementId argument has changed to i and the state update of the
\* first effect waits for its render.
ChangedTo(i) ==
  /\ phase = "mounted"
  /\ props.activeElementId = i
  /\ targetElement = i
  /\ rendered.targetElement # i

\* The element of i exists and the container is not null, on a mounted hook.
Available(i) == phase = "mounted" /\ i \in DOMAIN dom /\ container # "null"

\* C4: every change of the activeElementId argument to a non-empty id whose
\* element exists, with a non-null container, is eventually followed by a
\* scrollTo call on the container that targets that element (argument change,
\* then targetElement update, then scroll effect), unless before that the
\* element is removed, the container becomes null or the hook unmounts.
C4_ChangeLeadsToScroll ==
  \A i \in Ids :
    (ChangedTo(i) /\ Available(i))
      ~> ((call.made /\ call.id = i /\ call.container = container)
            \/ ~Available(i))

\* The scroll effect ran because targetElement went from one id to another,
\* and called scrollTo for the new one.
C4_Witness ==
  /\ call.made
  /\ ~call.first
  /\ call.from \in Ids
  /\ call.id \in Ids \ {call.from}
  /\ call.id = props.activeElementId

\* ------------------------------------------------------------------------ C2
\* The left or top of the bounding box of the container: 0 for a window.
ContainerLeft == IF container = "div" THEN call.read.corner[1] ELSE 0

ContainerTop == IF container = "div" THEN call.read.corner[2] ELSE 0

\* C2: when the scroll effect runs with a non-empty target whose element
\* exists and a non-null container, scrollTo is called on that container with
\* behavior "smooth" and, on the configured axis, with the container's
\* current scroll position on that axis plus the element's left/top minus the
\* container's left/top (0 for a window) minus the margin.
C2_ScrollToOffsets ==
  /\ call.ran
  /\ rendered.targetElement \in DOMAIN dom
  /\ container # "null"
  => /\ call.made
     /\ call.container = container
     /\ call.behavior = "smooth"
     /\ props.direction = "x" =>
          call.left = call.read.sx + dom[rendered.targetElement].left
                        - ContainerLeft - props.margin
     /\ props.direction = "y" =>
          call.top = call.read.sy + dom[rendered.targetElement].top
                       - ContainerTop - props.margin

\* A call on an element container whose box, scroll position, target and
\* margin are all away from 0.
C2_Witness ==
  /\ call.made
  /\ container = "div"
  /\ props.direction = "x"
  /\ props.margin = MaxPx
  /\ call.read.sx = MaxPx
  /\ call.read.corner = <<MaxPx, 0>>
  /\ dom[call.id].left = MaxPx
  /\ dom[call.id].top = 0
  /\ call.left = 0

\* ------------------------------------------------------------------------ C3
\* C3: a scroll-to acts on the configured axis only: the container's scroll
\* position on the other axis is the same after the scrollTo call as before.
C3_OtherAxisKept ==
  call.made =>
    /\ props.direction = "y" => call.afterX = call.read.sx
    /\ props.direction = "x" => call.afterY = call.read.sy

\* ----------------------------------------------------------------------- C10
\* C10: getScroll called with a container that has neither scrollX nor
\* scrollLeft defined returns [0, 0, 0, 0] and logs exactly one error.
C10_UnknownContainer ==
  gsOut.called /\ ~gsArg.hasScrollX /\ ~gsArg.hasScrollLeft =>
    gsOut.value = <<0, 0, 0, 0>> /\ gsOut.errors = 1

\* getScroll returned for an object with neither property, whatever else the
\* object holds.
C10_Witness ==
  /\ gsOut.called
  /\ ~gsArg.hasScrollX
  /\ ~gsArg.hasScrollLeft
  /\ gsArg.scrollTop = MaxPx
  /\ gsArg.rectLeft = MaxPx

\* ------------------------------------------------------- C5, C6, C7 and C8
\* The candidates, in the order of the elementsIds argument.
Candidate(k) == props.elementsIds[k]

Positions == 1..Len(props.elementsIds)

\* The element of candidate k exists and its bounding rect has
\* top <= 120 <= bottom.
InBand(k) ==
  /\ Candidate(k) \in DOMAIN dom
  /\ dom[Candidate(k)].top <= 120
  /\ dom[Candidate(k)].bottom >= 120

\* The element of candidate k exists and its bounding rect has its left at
\* most 10% and its right at least 90% of the window width, the one
\* useWindowDimensions gave the hook in its latest render.
AcrossWindow(k) ==
  /\ Candidate(k) \in DOMAIN dom
  /\ 10 * dom[Candidate(k)].left <= rendered.width
  /\ 10 * dom[Candidate(k)].right >= 9 * rendered.width

\* Candidate k satisfies the visibility threshold of the configured direction.
Satisfies(k) == IF props.direction = "x" THEN AcrossWindow(k) ELSE InBand(k)

\* C5 as stated: with direction y, after a scroll event, any candidate whose
\* bounding rect satisfies top <= 120 <= bottom is the active element.
C5_AnyInBandIsActive ==
  event.ran /\ props.direction = "y" =>
    \A k \in Positions : InBand(k) => activeElement = Candidate(k)

\* C5 as amended: with direction y, after a scroll event, a candidate whose
\* bounding rect satisfies top <= 120 <= bottom is the active element unless
\* a later candidate of elementsIds satisfies it too.
C5_LastInBandIsActive ==
  event.ran /\ props.direction = "y" =>
    \A k \in Positions :
      InBand(k) /\ (\A j \in Positions : j > k => ~InBand(j))
        => activeElement = Candidate(k)

\* A scroll event with direction y made a candidate in the band active whose
\* rect is not across the window; another candidate is not in the band.
C5_Witness ==
  /\ event.ran
  /\ props.direction = "y"
  /\ Len(props.elementsIds) = 2
  /\ InBand(1)
  /\ ~AcrossWindow(1)
  /\ Candidate(2) \in DOMAIN dom
  /\ ~InBand(2)
  /\ event.before # Candidate(1)
  /\ activeElement = Candidate(1)

\* C6 as stated: with direction x, after a scroll event, a candidate becomes
\* the active element exactly when its bounding rect has left <= 10% and
\* right >= 90% of the current window width.
C6_ActiveIffAcrossWindow ==
  event.ran /\ props.direction = "x" =>
    \A k \in Positions :
      /\ AcrossWindow(k) => activeElement = Candidate(k)
      /\ activeElement = Candidate(k) /\ event.before # Candidate(k)
           => AcrossWindow(k)

\* C6 as amended: with direction x, after a scroll event, a candidate becomes
\* the active element exactly when its bounding rect has left <= 10% and
\* right >= 90% of the current window width and no later candidate of
\* elementsIds has; the band of the y-axis plays no role.
C6_ActiveIffLastAcrossWindow ==
  event.ran /\ props.direction = "x" =>
    \A k \in Positions :
      /\ AcrossWindow(k) /\ (\A j \in Positions : j > k => ~AcrossWindow(j))
           => activeElement = Candidate(k)
      /\ activeElement = Candidate(k) /\ event.before # Candidate(k)
           => /\ AcrossWindow(k)
              /\ \A j \in Positions :
                   j > k /\ Candidate(j) # Candidate(k) => ~AcrossWindow(j)

\* A scroll event with direction x made active a candidate across the window
\* and outside the band, and left alone one inside the band that is not
\* across the window.
C6_Witness ==
  /\ event.ran
  /\ props.direction = "x"
  /\ Len(props.elementsIds) = 2
  /\ AcrossWindow(1)
  /\ ~InBand(1)
  /\ InBand(2)
  /\ ~AcrossWindow(2)
  /\ event.before # Candidate(1)
  /\ activeElement = Candidate(1)

\* C7 as stated: after a scroll event in which some candidate satisfies the
\* threshold, the active element is the first such id in elementsIds order.
C7_FirstMatchIsActive ==
  event.ran =>
    \A k \in Positions :
      Satisfies(k) /\ (\A j \in Positions : j < k => ~Satisfies(j))
        => activeElement = Candidate(k)

\* C7 as amended: after a scroll event in which some candidate satisfies the
\* threshold, the active element is the last such id in elementsIds order.
C7_LastMatchIsActive ==
  event.ran /\ (\E k \in Positions : Satisfies(k)) =>
    \E k \in Positions :
      /\ Satisfies(k)
      /\ \A j \in Positions : Satisfies(j) => j <= k
      /\ activeElement = Candidate(k)

\* A scroll event changed the active element to the only candidate, the
\* second of two, that satisfies the threshold.
C7_Witness ==
  /\ event.ran
  /\ Len(props.elementsIds) = 2
  /\ Candidate(1) \in DOMAIN dom
  /\ ~Satisfies(1)
  /\ Satisfies(2)
  /\ event.before = Candidate(1)
  /\ activeElement = Candidate(2)

\* C8: when several candidates satisfy the threshold in the same scroll
\* event, the active element after it is the last of them in list order.
C8_LaterMatchOverrides ==
  event.ran =>
    \A k \in Positions : \A j \in Positions :
      /\ k < j
      /\ Satisfies(k)
      /\ Satisfies(j)
      /\ \A m \in Positions : m > j => ~Satisfies(m)
      => activeElement = Candidate(j)

\* Both candidates satisfied the threshold and the event, starting from the
\* first of them, ended at the second.
C8_Witness ==
  /\ event.ran
  /\ Len(props.elementsIds) = 2
  /\ Satisfies(1)
  /\ Satisfies(2)
  /\ Candidate(1) # Candidate(2)
  /\ event.before = ""
  /\ activeElement = Candidate(2)

\* ----------------------------------------------------------------------- C11
\* C11: after the hook is unmounted no scroll listener it registered remains
\* attached to any container, and no step after the unmount, a scroll event
\* on either container included, changes the active element; whatever
\* renders, container changes and scroll events came before the unmount.
C11_NoListenerAfterUnmount ==
  /\ [](phase = "unmounted" => listeners = {})
  /\ [][phase = "unmounted" => activeElement' = activeElement]_vars

\* A scroll event was dispatched to the current container after the unmount,
\* on a page with an element, of a hook whose active element scroll events
\* had changed before.
C11_Witness ==
  /\ phase = "unmounted"
  /\ ~event.ran
  /\ event.container = container
  /\ container # "null"
  /\ DOMAIN dom # {}
  /\ activeElement # props.activeElementId

\* ----------------------------------------------------------------------- C12
\* C12: a scroll event makes no scrollTo call, and neither does the render
\* that follows an update of the active element when the arguments of the
\* hook are the same as in the render before and no update of targetElement
\* (the consequence of an earlier change of activeElementId) is waiting.
C12_ScrollEventNeverScrolls ==
  [][/\ event'.ran => ~call'.made
     /\ /\ call'.render
        /\ props' = props
        /\ activeElement # rendered.activeElement
        /\ targetElement = rendered.targetElement
        => ~call'.made]_vars

\* A render returned an active element that only a scroll event can have set,
\* and its scroll effect did not run although the target element and the
\* container were there.
C12_Witness ==
  /\ call.render
  /\ ~call.first
  /\ ~call.ran
  /\ rendered.activeElement = activeElement
  /\ rendered.activeElement # props.activeElementId
  /\ rendered.targetElement = props.activeElementId
  /\ rendered.targetElement \in DOMAIN dom
  /\ container # "null"

\* ----------------------------------------------------------------------- C13
\* C13: the first render returns the activeElementId argument; afterwards the
\* active element state changes in scroll events only, the returned value
\* changes only in a render that picks up that state; and a render with a
\* changed activeElementId stores it as the target element and leaves the
\* active element alone.
C13_ReturnedChangesByScrollOnly ==
  [][/\ call'.first => rendered'.activeElement = props'.activeElementId
     /\ phase = "mounted" /\ activeElement' # activeElement => event'.ran
     /\ phase = "mounted" /\ rendered'.activeElement # rendered.activeElement
          => /\ call'.render
             /\ rendered'.activeElement = activeElement
             /\ activeElement' = activeElement
     /\ /\ call'.render
        /\ ~call'.first
        /\ props'.activeElementId # props.activeElementId
        => /\ targetElement' = props'.activeElementId
           /\ activeElement' = activeElement]_vars

\* A render with a new activeElementId stored it as the target, which waits
\* for its render, and returned another, non-empty id as the active element.
C13_Witness ==
  /\ call.render
  /\ ~call.first
  /\ targetElement = props.activeElementId
  /\ targetElement # rendered.targetElement
  /\ rendered.activeElement # props.activeElementId
  /\ rendered.activeElement \in Ids
  /\ activeElement = rendered.activeElement

\* ----------------------------------------------------------------------- C14
\* C14: a scroll event in which no candidate has an existing element that
\* satisfies the threshold of the configured direction, an empty elementsIds
\* included, leaves the active element as it was; and no scroll event turns
\* a non-empty active element into the empty string.
C14_NoMatchKeepsActive ==
  event.ran =>
    /\ (\A k \in Positions : ~Satisfies(k)) => activeElement = event.before
    /\ event.before # "" => activeElement # ""

\* A scroll event found both candidates on the page, neither satisfying the
\* threshold, and kept a non-empty active element.
C14_Witness ==
  /\ event.ran
  /\ Len(props.elementsIds) = 2
  /\ \A k \in Positions : Candidate(k) \in DOMAIN dom /\ ~Satisfies(k)
  /\ event.before \in Ids
  /\ activeElement = event.before

\* A scroll event with an empty elementsIds, on a page with elements that
\* would satisfy the threshold.
C14_WitnessEmptyList ==
  /\ event.ran
  /\ props.elementsIds = << >>
  /\ \E i \in DOMAIN dom : Visible(dom[i], props.direction, rendered.width)
  /\ event.before \in Ids
  /\ activeElement = event.before

\* ----------------------------------------------------------------------- C15
\* C15: a mounted hook has at most one scroll listener attached in total;
\* after every render it is attached to the container getScrollContainer()
\* returned in that render, and none is attached when that was null; between
\* renders the attachment stays as it is.  So no render and no container
\* change leaves a listener on a container of an earlier render.
C15_OneListenerOnRenderedContainer ==
  /\ [](phase = "mounted" => Cardinality(listeners) <= 1)
  /\ [][call'.render =>
          IF container = "null"
            THEN listeners' = {}
            ELSE \E l \in listeners' :
                   listeners' = {l} /\ l.container = container]_vars
  /\ [][phase = "mounted" /\ phase' = "mounted" /\ ~call'.render
          => listeners' = listeners]_vars

\* A render after the mounting one, of a hook whose active element a scroll
\* event had changed, left the one listener on the element container.
C15_Witness ==
  /\ call.render
  /\ ~call.first
  /\ container = "div"
  /\ \E l \in listeners : listeners = {l} /\ l.container = "div"
  /\ rendered.activeElement # props.activeElementId

\* getScrollContainer() returns the window by now and the hook has not
\* rendered since: its listener is still the one on the element.
C15_WitnessBeforeRender ==
  /\ phase = "mounted"
  /\ container = "window"
  /\ \E l \in listeners : listeners = {l} /\ l.container = "div"

\* ----------------------------------------------------------------------- C16
\* C16: when the last run of the scroll effect, for a non-empty target, made
\* no scrollTo call, a later render in which targetElement, getScrollContainer,
\* direction and margin are what they were makes no scrollTo call either,
\* whether or not the container and the element are there by now.
C16_SkippedNotRetried ==
  [][/\ call'.render
     /\ ~call'.first
     /\ ~rendered.scrolled
     /\ rendered.targetElement # ""
     /\ rendered'.targetElement = rendered.targetElement
     /\ props'.getScrollContainer = props.getScrollContainer
     /\ props'.direction = props.direction
     /\ props'.margin = props.margin
     => ~call'.made]_vars

\* A render did not run the scroll effect although the element of the target
\* and the container are there and the last run of the effect made no call.
C16_Witness ==
  /\ call.render
  /\ ~call.first
  /\ ~call.ran
  /\ ~rendered.scrolled
  /\ rendered.targetElement \in DOMAIN dom
  /\ container # "null"

\* ----------------------------------------------------------------------- C17
\* C17: getScroll returns [scrollX, scrollY, 0, 0] for every container with
\* scrollX defined, whether or not scrollLeft is defined too, and otherwise
\* [scrollLeft, scrollTop, left, top of the bounding rect] for every container
\* with scrollLeft defined; the result always has four entries.
C17_GetScrollBranches ==
  gsOut.called =>
    /\ gsArg.hasScrollX =>
         gsOut.value = <<gsArg.scrollX, gsArg.scrollY, 0, 0>>
    /\ ~gsArg.hasScrollX /\ gsArg.hasScrollLeft =>
         gsOut.value = <<gsArg.scrollLeft, gsArg.scrollTop,
                         gsArg.rectLeft, gsArg.rectTop>>
    /\ Len(gsOut.value) = 4

\* getScroll returned for an object with both properties defined, whose
\* values tell the two branches apart.
C17_Witness ==
  /\ gsOut.called
  /\ gsArg.hasScrollX
  /\ gsArg.hasScrollLeft
  /\ gsArg.scrollX # gsArg.scrollLeft
  /\ gsArg.rectLeft # 0

\* getScroll returned for an element: scrollLeft defined, scrollX not, and a
\* bounding rect away from the origin.
C17_WitnessElement ==
  /\ gsOut.called
  /\ ~gsArg.hasScrollX
  /\ gsArg.hasScrollLeft
  /\ gsArg.scrollLeft = MaxPx
  /\ gsArg.rectTop = MaxPx

====
